---- MODULE Spec2Model ----
(***************************************************************************)
(* Model of create_linkedin_icons.py: the icon renderer                    *)
(* create_linkedin_chat_icon(size) and the driver main().                  *)
(*                                                                         *)
(* Python floats are IEEE-754 doubles; int(n * 0.7) is modelled bit for    *)
(* bit (53-bit significand, round to nearest even, truncation).  A canvas  *)
(* is a raster of packed RGB pixels; the drawing primitives of the imaging *)
(* library overwrite the pixels they cover and clip to the canvas.         *)
(***************************************************************************)
EXTENDS Integers, Sequences, FiniteSets, TLC

VARIABLES
    pc,      \* position of the running code
    loc,     \* locals of create_linkedin_chat_icon (bound names only)
    img,     \* the canvas create_linkedin_chat_icon draws on
    icon,    \* the caller's variable holding the last returned canvas
    ncalls,  \* calls made so far by the rendering harness
    run,     \* number of main() runs started
    idx,     \* position of main's for loop in sizes
    fs,      \* the filesystem: directories and files
    out,     \* standard output of the current run, one line per element
    exc,     \* the uncaught exception of the current run, "" when none
    trace,   \* history: the events of the current run, in order
    written, \* history: path -> content saved by the current run
    fs0,     \* history: the filesystem when the current run started
    ends     \* history: one record per finished run

vars == <<pc, loc, img, icon, ncalls, run, idx, fs, out, exc, trace, written, fs0, ends>>

procVars == <<run, idx, fs, out, exc, trace, written, fs0, ends>>

(***************************************************************************)
(* Bounds of the model.                                                    *)
(***************************************************************************)
MaxGeomSize == 128  \* sizes 1..MaxGeomSize in the geometry specification
MaxSize == 16       \* sizes 1..MaxSize in the rendering specification
MaxCalls == 2       \* calls per behaviour in the rendering specification
MaxRuns == 2        \* runs of main() per behaviour

(***************************************************************************)
(* IEEE-754 double arithmetic: n * c for a non-negative integer n < 2^8    *)
(* and a double literal c, then int().  A literal is its 53-bit            *)
(* significand in three limbs (hi, mid, lo of 17, 18, 18 bits) with        *)
(* c = significand / 2^exp.                                                *)
(***************************************************************************)
Limb == 2^18

F_0_7  == [hi |-> 91750,  mid |-> 104857, lo |-> 157286, exp |-> 53]
F_0_75 == [hi |-> 98304,  mid |-> 0,      lo |-> 0,      exp |-> 53]
F_0_15 == [hi |-> 78643,  mid |-> 52428,  lo |-> 209715, exp |-> 55]
F_0_2  == [hi |-> 104857, mid |-> 157286, lo |-> 104858, exp |-> 55]
F_0_3  == [hi |-> 78643,  mid |-> 52428,  lo |-> 209715, exp |-> 54]

RECURSIVE BitLen(_)
BitLen(n) == IF n = 0 THEN 0 ELSE 1 + BitLen(n \div 2)

\* int(n * c): the exact product, rounded to 53 bits (ties to even), truncated.
IntMul(n, c) ==
    IF n = 0 THEN 0
    ELSE LET t0 == n * c.lo
             p0 == t0 % Limb
             t1 == n * c.mid + t0 \div Limb
             p1 == t1 % Limb
             p2 == n * c.hi + t1 \div Limb
             s  == BitLen(p2) - 17          \* bits dropped by the rounding
             R  == p0 % (2^s)
             up == /\ s > 0
                   /\ \/ R > 2^(s - 1)
                      \/ R = 2^(s - 1) /\ (p0 \div 2^s) % 2 = 1
             q0 == p0 - R + (IF up THEN 2^s ELSE 0)
             q1 == p1 + q0 \div Limb
             q2 == p2 + q1 \div Limb
         IN  q2 \div 2^(c.exp - 36)

Max(a, b) == IF a >= b THEN a ELSE b
Min(a, b) == IF a <= b THEN a ELSE b

(***************************************************************************)
(* Colours: '#rrggbb' literals, given by their six hex digits.             *)
(***************************************************************************)

\* A mistyped brand colour: "#0A66C3".
linkedin_blue_typo == <<0, 10, 6, 6, 12, 3>>

linkedin_blue == <<0, 10, 6, 6, 12, 2>>      \* "#0A66C2"
white         == <<15, 15, 15, 15, 15, 15>>  \* "#FFFFFF"

\* ImageColor.getrgb: the (r, g, b) triple of a '#rrggbb' literal.
getrgb(c) == <<c[1] * 16 + c[2], c[3] * 16 + c[4], c[5] * 16 + c[6]>>

\* The ink of an 'RGB' image: the three channels packed into one pixel value.
Ink(c) == LET t == getrgb(c) IN t[1] * 65536 + t[2] * 256 + t[3]

(***************************************************************************)
(* Canvas: width, height and the pixel buffer, whose element y*width+x+1   *)
(* is pixel (x, y).                                                        *)
(***************************************************************************)
ImageNew(w, h, color) ==
    [width |-> w, height |-> h, px |-> [p \in 1..(w * h) |-> Ink(color)]]

NoImage == [width |-> 0, height |-> 0, px |-> <<>>]

\* A fill: every pixel of the canvas the shape covers (mask[p]) takes the
\* ink, the others keep their value; what lies outside the canvas is clipped.
Fill(im, mask, color) ==
    [im EXCEPT !.px = [p \in DOMAIN im.px |->
        IF mask[p] THEN Ink(color) ELSE im.px[p]]]

\* Inside the disc of diameter d centred at (sx/2, sy/2), pixel centres.
InDisc(x, y, sx, sy, d) ==
    (2 * x - sx) * (2 * x - sx) + (2 * y - sy) * (2 * y - sy) <= d * d + 2 * d

RoundedRectCovers(x0, y0, x1, y1, radius, x, y) ==
    LET r == Min(radius, Min((x1 - x0) \div 2, (y1 - y0) \div 2))
    IN  /\ x0 <= x /\ x <= x1 /\ y0 <= y /\ y <= y1
        /\ LET cx == Max(x0 + r, Min(x, x1 - r))
               cy == Max(y0 + r, Min(y, y1 - r))
           IN  InDisc(x - cx, y - cy, 0, 0, 2 * r)

\* ImageDraw.rounded_rectangle([x0, y0, x1, y1], radius, fill)
rounded_rectangle(im, x0, y0, x1, y1, radius, fill) ==
    Fill(im, [p \in DOMAIN im.px |->
                 RoundedRectCovers(x0, y0, x1, y1, radius,
                                   (p - 1) % im.width, (p - 1) \div im.width)],
         fill)

\* The edge function of the line from a to b at (x, y).
Edge(a, b, x, y) == (b[1] - a[1]) * (y - a[2]) - (b[2] - a[2]) * (x - a[1])

\* The closed triangle pts, within its bounding box.
PolygonCovers(pts, x, y) ==
    /\ \E k \in 1..3 : pts[k][1] <= x
    /\ \E k \in 1..3 : x <= pts[k][1]
    /\ \E k \in 1..3 : pts[k][2] <= y
    /\ \E k \in 1..3 : y <= pts[k][2]
    /\ LET e1 == Edge(pts[1], pts[2], x, y)
           e2 == Edge(pts[2], pts[3], x, y)
           e3 == Edge(pts[3], pts[1], x, y)
       IN  \/ e1 >= 0 /\ e2 >= 0 /\ e3 >= 0
           \/ e1 <= 0 /\ e2 <= 0 /\ e3 <= 0

\* ImageDraw.polygon(pts, fill) of three points.
polygon(im, pts, fill) ==
    Fill(im, [p \in DOMAIN im.px |->
                 PolygonCovers(pts, (p - 1) % im.width, (p - 1) \div im.width)],
         fill)

EllipseCovers(x0, y0, x1, y1, x, y) ==
    /\ x0 <= x /\ x <= x1 /\ y0 <= y /\ y <= y1
    /\ InDisc(x, y, x0 + x1, y0 + y1, x1 - x0)

\* An ellipse that enlarges the canvas to hold its whole bounding box.
ellipse_grow(im, x0, y0, x1, y1, fill) ==
    [width |-> Max(im.width, x1 + 1), height |-> Max(im.height, y1 + 1),
     px |-> im.px]

\* ImageDraw.ellipse([x0, y0, x1, y1], fill) of a square bounding box.
ellipse(im, x0, y0, x1, y1, fill) ==
    Fill(im, [p \in DOMAIN im.px |->
                 EllipseCovers(x0, y0, x1, y1,
                               (p - 1) % im.width, (p - 1) \div im.width)],
         fill)

(***************************************************************************)
(* The geometry create_linkedin_chat_icon derives from size.               *)
(***************************************************************************)
bubble_size(size) == IntMul(size, F_0_7)

BubbleGeometry(size) ==
    LET b == bubble_size(size)
        m == (size - b) \div 2
    IN  [bubble_size   |-> b,
         margin        |-> m,
         bubble_left   |-> m,
         bubble_top    |-> m,
         bubble_right  |-> m + b,
         bubble_bottom |-> m + IntMul(b, F_0_75),
         corner_radius |-> IntMul(b, F_0_15)]

TailGeometry(l) ==
    [tail_size |-> IntMul(l.bubble_size, F_0_2),
     tail_x    |-> l.bubble_left + IntMul(l.bubble_size, F_0_3),
     tail_y    |-> l.bubble_bottom]

tail_points(l) ==
    << <<l.tail_x, l.tail_y>>,
       <<l.tail_x + l.tail_size, l.tail_y>>,
       <<l.tail_x + l.tail_size \div 2, l.tail_y + l.tail_size \div 2>> >>


\* The radius without its lower clamp.
dot_radius_unclamped(size) == size \div 32

dot_radius(size) == Max(1, size \div 32)

DotGeometry(l) ==
    [dot_radius  |-> dot_radius(l.size),
     dot_y       |-> l.bubble_top + l.bubble_size \div 3,
     center_x    |-> l.bubble_left + l.bubble_size \div 2,
     dot_spacing |-> l.bubble_size \div 6]

dot_x(l, i) == l.center_x - l.dot_spacing + (i * l.dot_spacing)

DrawBubble(im, l) ==
    rounded_rectangle(im, l.bubble_left, l.bubble_top, l.bubble_right,
                      l.bubble_bottom, l.corner_radius, white)

DrawTail(im, l) == polygon(im, tail_points(l), white)

DrawDot(im, l, i) ==
    ellipse(im, dot_x(l, i) - l.dot_radius, l.dot_y - l.dot_radius,
            dot_x(l, i) + l.dot_radius, l.dot_y + l.dot_radius, linkedin_blue)

(***************************************************************************)
(* create_linkedin_chat_icon, statement by statement.                      *)
(***************************************************************************)

\* A frame that keeps the names a previous call bound.
FrameStale(size) == IF "size" \in DOMAIN loc THEN loc ELSE [size |-> size]

\* The call binds the parameter in a fresh frame.
Frame(size) == [size |-> size]

NewCanvas(size) == ImageNew(size, size, linkedin_blue)

RenderNew ==
    /\ pc = "new"
    /\ img' = NewCanvas(loc.size)
    /\ pc' = "bubble_geom"
    /\ UNCHANGED <<loc, icon, ncalls>>
    /\ UNCHANGED procVars

RenderBubbleGeom ==
    /\ pc = "bubble_geom"
    /\ loc' = loc @@ BubbleGeometry(loc.size)
    /\ pc' = "bubble_draw"
    /\ UNCHANGED <<img, icon, ncalls>>
    /\ UNCHANGED procVars

RenderBubbleDraw ==
    /\ pc = "bubble_draw"
    /\ img' = DrawBubble(img, loc)
    /\ pc' = "tail_geom"
    /\ UNCHANGED <<loc, icon, ncalls>>
    /\ UNCHANGED procVars

RenderTailGeom ==
    /\ pc = "tail_geom"
    /\ loc' = loc @@ TailGeometry(loc)
    /\ pc' = "tail_draw"
    /\ UNCHANGED <<img, icon, ncalls>>
    /\ UNCHANGED procVars

RenderTailDraw ==
    /\ pc = "tail_draw"
    /\ img' = DrawTail(img, loc)
    /\ pc' = "dots_geom"
    /\ UNCHANGED <<loc, icon, ncalls>>
    /\ UNCHANGED procVars

RenderDotsGeom ==
    /\ pc = "dots_geom"
    /\ loc' = loc @@ DotGeometry(loc) @@ [i |-> 0]
    /\ pc' = "dot"
    /\ UNCHANGED <<img, icon, ncalls>>
    /\ UNCHANGED procVars

\* One iteration of "for i in range(3)".
RenderDot ==
    /\ pc = "dot"
    /\ loc.i < 3
    /\ img' = DrawDot(img, loc, loc.i)
    /\ loc' = [loc EXCEPT !.i = loc.i + 1]
    /\ UNCHANGED <<pc, icon, ncalls>>
    /\ UNCHANGED procVars

\* "return img", and the caller's "icon = create_linkedin_chat_icon(size)".
RenderReturn ==
    /\ pc = "dot"
    /\ loc.i = 3
    /\ icon' = img
    /\ pc' = "returned"
    /\ trace' = Append(trace, <<"render", loc.size>>)
    /\ UNCHANGED <<loc, img, ncalls>>
    /\ UNCHANGED <<run, idx, fs, out, exc, written, fs0, ends>>

Render ==
    \/ RenderNew
    \/ RenderBubbleGeom
    \/ RenderBubbleDraw
    \/ RenderTailGeom
    \/ RenderTailDraw
    \/ RenderDotsGeom
    \/ RenderDot
    \/ RenderReturn

\* The canvas create_linkedin_chat_icon(size) returns, as one expression.
create_linkedin_chat_icon(size) ==
    LET l1 == [size |-> size] @@ BubbleGeometry(size)
        l2 == l1 @@ TailGeometry(l1)
        l3 == l2 @@ DotGeometry(l2)
        i1 == DrawTail(DrawBubble(NewCanvas(size), l3), l3)
    IN  DrawDot(DrawDot(DrawDot(i1, l3, 0), l3, 1), l3, 2)

(***************************************************************************)
(* A caller that renders any sizes, one call after another.                *)
(***************************************************************************)
NoFs == [dirs |-> {}, files |-> <<>>]

InitProc ==
    /\ run = 0
    /\ idx = 0
    /\ fs = NoFs
    /\ out = <<>>
    /\ exc = ""
    /\ trace = <<>>
    /\ written = <<>>
    /\ fs0 = NoFs
    /\ ends = <<>>

InitRender ==
    /\ pc = "caller"
    /\ loc = <<>>
    /\ img = NoImage
    /\ icon = NoImage
    /\ ncalls = 0
    /\ InitProc

Call ==
    /\ pc \in {"caller", "returned"}
    /\ ncalls < MaxCalls
    /\ \E size \in 1..MaxSize :
          /\ loc' = Frame(size)
          /\ trace' = Append(trace, <<"call", size>>)
    /\ ncalls' = ncalls + 1
    /\ img' = NoImage
    /\ pc' = "new"
    /\ UNCHANGED icon
    /\ UNCHANGED <<run, idx, fs, out, exc, written, fs0, ends>>

NextRender == Call \/ Render

SpecRender == InitRender /\ [][NextRender]_vars

(***************************************************************************)
(* The arithmetic of create_linkedin_chat_icon alone, for any size.        *)
(***************************************************************************)
InitGeom ==
    /\ pc = "g_bubble"
    /\ \E size \in 1..MaxGeomSize : loc = Frame(size)
    /\ img = NoImage
    /\ icon = NoImage
    /\ ncalls = 0
    /\ InitProc

GeomBubble ==
    /\ pc = "g_bubble"
    /\ loc' = loc @@ BubbleGeometry(loc.size)
    /\ pc' = "g_tail"
    /\ UNCHANGED <<img, icon, ncalls>>
    /\ UNCHANGED procVars

GeomTail ==
    /\ pc = "g_tail"
    /\ loc' = loc @@ TailGeometry(loc)
    /\ pc' = "g_dots"
    /\ UNCHANGED <<img, icon, ncalls>>
    /\ UNCHANGED procVars

GeomDots ==
    /\ pc = "g_dots"
    /\ loc' = loc @@ DotGeometry(loc)
    /\ pc' = "g_done"
    /\ UNCHANGED <<img, icon, ncalls>>
    /\ UNCHANGED procVars

NextGeom == GeomBubble \/ GeomTail \/ GeomDots

SpecGeom == InitGeom /\ [][NextGeom]_vars

(***************************************************************************)
(* The filesystem.  A path is the sequence of its components; a file's     *)
(* content is its header and its compressed scanlines.                     *)
(***************************************************************************)
icons_dir == <<"src", "icons">>      \* "src/icons"


\* The sizes, largest first.
sizes_descending == <<128, 64, 32, 16>>

sizes == <<16, 32, 64, 128>>


\* The file name without the size in it.
filename_nosize(size) == icons_dir \o <<"logo-.png">>

\* f"{icons_dir}/logo-{size}.png"
filename(size) == icons_dir \o <<"logo-" \o ToString(size) \o ".png">>

RECURSIVE PathStr(_)
PathStr(p) ==
    IF Len(p) = 1 THEN p[1]
    ELSE PathStr(SubSeq(p, 1, Len(p) - 1)) \o "/" \o p[Len(p)]

Parent(p) == SubSeq(p, 1, Len(p) - 1)
Prefixes(p) == {SubSeq(p, 1, n) : n \in 1..Len(p)}
IsFile(f, p) == p \in DOMAIN f.files
IsDir(f, p) == p = <<>> \/ p \in f.dirs

\* The pixel (x, y) of a canvas.
Pixel(im, x, y) == im.px[y * im.width + x + 1]

\* One scanline, compressed without loss: the pixel at every x where a run
\* of equal pixels starts.
ScanlineRuns(im, y) ==
    [x \in {x \in 0..(im.width - 1) :
               x = 0 \/ Pixel(im, x, y) # Pixel(im, x - 1, y)} |-> Pixel(im, x, y)]

\* The PNG encoder: the header, then the scanlines, each compressed without
\* loss.
Png(im) == [format |-> "PNG", mode |-> "RGB", width |-> im.width,
            height |-> im.height,
            rows |-> [y \in 1..im.height |-> ScanlineRuns(im, y - 1)]]

\* The canvases of the driver's sizes.
Rendered == [s \in {sizes[k] : k \in 1..Len(sizes)} |-> create_linkedin_chat_icon(s)]

\* What a write that failed half way leaves behind.
Truncated == [format |-> "", mode |-> "", width |-> 0, height |-> 0,
              rows |-> <<>>]

\* os.makedirs(path) without exist_ok: an existing directory is an error.
makedirs_no_exist_ok(f, path) ==
    IF IsDir(f, path) \/ IsFile(f, path)
    THEN {[fs |-> f, exc |-> "FileExistsError"]}
    ELSE {[fs |-> [f EXCEPT !.dirs = f.dirs \cup Prefixes(path)], exc |-> ""],
          [fs |-> f, exc |-> "PermissionError"]}

\* os.makedirs(path, exist_ok=True): the outcomes it can have on f.
makedirs(f, path) ==
    LET missing == {q \in Prefixes(path) : ~IsDir(f, q)}
    IN  IF \E q \in Prefixes(path) : q # path /\ IsFile(f, q)
        THEN {[fs |-> f, exc |-> "NotADirectoryError"]}
        ELSE IF IsFile(f, path)
        THEN {[fs |-> f, exc |-> "FileExistsError"]}
        ELSE {[fs |-> [f EXCEPT !.dirs = f.dirs \cup missing], exc |-> ""]}
             \cup {[fs |-> [f EXCEPT !.dirs = f.dirs \cup
                                {r \in missing : Len(r) < Len(q)}],
                    exc |-> "PermissionError"] : q \in missing}

\* icon.save(path, "PNG"): the outcomes it can have on f.  The file is
\* opened for writing (created, or emptied), then the encoding is written.
save(f, im, path) ==
    IF IsDir(f, path)
    THEN {[fs |-> f, exc |-> "IsADirectoryError"]}
    ELSE IF ~IsDir(f, Parent(path))
    THEN {[fs |-> f, exc |-> "FileNotFoundError"]}
    ELSE {[fs |-> [f EXCEPT !.files = (path :> Png(im)) @@ f.files], exc |-> ""],
          [fs |-> f, exc |-> "PermissionError"],
          [fs |-> [f EXCEPT !.files = (path :> Truncated) @@ f.files],
           exc |-> "OSError"]}

(***************************************************************************)
(* main(), statement by statement.                                         *)
(***************************************************************************)
Stale == Png(ImageNew(1, 1, white))

InitialFilesystems ==
    {[dirs |-> {}, files |-> <<>>],
     [dirs |-> {<<"src">>}, files |-> <<>>],
     [dirs |-> {<<"src">>, icons_dir}, files |-> <<>>],
     [dirs |-> {<<"src">>, icons_dir},
      files |-> (filename(16) :> Stale) @@ (icons_dir \o <<"old.png">> :> Stale)],
     [dirs |-> {<<"src">>}, files |-> (icons_dir :> Stale)],
     [dirs |-> {<<"src">>, icons_dir, filename(64)}, files |-> <<>>]}

Init ==
    /\ pc = "idle"
    /\ loc = <<>>
    /\ img = NoImage
    /\ icon = NoImage
    /\ ncalls = 0
    /\ run = 0
    /\ idx = 0
    /\ fs \in InitialFilesystems
    /\ out = <<>>
    /\ exc = ""
    /\ trace = <<>>
    /\ written = <<>>
    /\ fs0 = fs
    /\ ends = <<>>


\* A handler that swallows the error and goes on with the loop.
HandlerContinue == "loop"

\* Where control goes when a statement of main raises: nothing catches it.
Handler == "exit"

\* The process is started.
Start ==
    /\ pc \in {"idle", "exit"}
    /\ run < MaxRuns
    /\ run' = run + 1
    /\ pc' = "makedirs"
    /\ idx' = 0
    /\ icon' = NoImage
    /\ out' = <<>>
    /\ exc' = ""
    /\ trace' = <<>>
    /\ written' = <<>>
    /\ fs0' = fs
    /\ UNCHANGED <<loc, img, ncalls, fs, ends>>

\* A statement raised e: the traceback, and the process ends.
Raise(e) ==
    /\ exc' = e
    /\ pc' = Handler
    /\ ends' = IF Handler = "exit" THEN Append(ends, e) ELSE ends

\* os.makedirs(icons_dir, exist_ok=True)
Makedirs ==
    /\ pc = "makedirs"
    /\ \E o \in makedirs(fs, icons_dir) :
          /\ fs' = o.fs
          /\ IF o.exc = ""
             THEN /\ pc' = "loop"
                  /\ trace' = Append(trace, <<"makedirs">>)
                  /\ UNCHANGED <<exc, ends>>
             ELSE /\ Raise(o.exc)
                  /\ trace' = Append(trace, <<"raise", 0>>)
    /\ UNCHANGED <<loc, img, icon, ncalls, run, idx, out, written, fs0>>

\* for size in sizes: icon = create_linkedin_chat_icon(size)
MainRender ==
    /\ pc = "loop"
    /\ idx < Len(sizes)
    /\ idx' = idx + 1
    /\ icon' = Rendered[sizes[idx + 1]]
    /\ trace' = Append(trace, <<"render", sizes[idx + 1]>>)
    /\ pc' = "save"
    /\ UNCHANGED <<loc, img, ncalls, run, fs, out, exc, written, fs0, ends>>

\* filename = ...; icon.save(filename, "PNG")
Save ==
    /\ pc = "save"
    /\ \E o \in save(fs, icon, filename(sizes[idx])) :
          /\ fs' = o.fs
          /\ IF o.exc = ""
             THEN /\ pc' = "print"
                  /\ written' = (filename(sizes[idx]) :> fs'.files[filename(sizes[idx])])
                                  @@ written
                  /\ trace' = Append(trace, <<"save", sizes[idx]>>)
                  /\ UNCHANGED <<exc, ends>>
             ELSE /\ Raise(o.exc)
                  /\ trace' = Append(trace, <<"raise", sizes[idx]>>)
                  /\ UNCHANGED written
    /\ UNCHANGED <<loc, img, icon, ncalls, run, idx, out, fs0>>

\* print(f"Created {filename}")
PrintCreated ==
    /\ pc = "print"
    /\ out' = Append(out, "Created " \o PathStr(filename(sizes[idx])))
    /\ trace' = Append(trace, <<"print", sizes[idx]>>)
    /\ pc' = "loop"
    /\ UNCHANGED <<loc, img, icon, ncalls, run, idx, fs, exc, written, fs0, ends>>

\* The loop is exhausted, main returns and the process exits with status 0.
MainReturn ==
    /\ pc = "loop"
    /\ idx = Len(sizes)
    /\ pc' = "exit"
    /\ ends' = Append(ends, "")
    /\ UNCHANGED <<loc, img, icon, ncalls, run, idx, fs, out, exc, trace, written, fs0>>

Next == Start \/ Makedirs \/ MainRender \/ Save \/ PrintCreated \/ MainReturn

Spec == Init /\ [][Next]_vars

\* The statements of a run.
Step == Makedirs \/ MainRender \/ Save \/ PrintCreated \/ MainReturn

(***************************************************************************)
(* What the properties below compare the model with: the names and the     *)
(* order as the documentation states them, written out literally.          *)
(***************************************************************************)
ClaimSizes == <<16, 32, 64, 128>>

LogoName == (16 :> "logo-16.png") @@ (32 :> "logo-32.png") @@
            (64 :> "logo-64.png") @@ (128 :> "logo-128.png")

LogoPath(s) == <<"src", "icons", LogoName[s]>>

LogoPaths == {LogoPath(ClaimSizes[k]) : k \in 1..4}

\* The file decodes to an image s pixels wide and s pixels high.
HoldsImage(file, s) ==
    /\ file.format = "PNG"
    /\ file.width = s /\ file.height = s
    /\ Len(file.rows) = s
    /\ \A y \in 1..s : /\ DOMAIN file.rows[y] \subseteq 0..(s - 1)
                       /\ 0 \in DOMAIN file.rows[y]

CreatedLine(k) == "Created src/icons/" \o LogoName[ClaimSizes[k]]

Iteration(k) == << <<"render", ClaimSizes[k]>>, <<"save", ClaimSizes[k]>>,
                   <<"print", ClaimSizes[k]>> >>

RECURSIVE Completed(_)
\* The events of a run up to the end of its k-th iteration.
Completed(k) == IF k = 0 THEN << <<"makedirs">> >>
                ELSE Completed(k - 1) \o Iteration(k)

Raised == trace # <<>> /\ trace[Len(trace)][1] = "raise"

\* The size the caller asked for in the call that returned last.
ReturnedSize == IF pc = "returned" THEN trace[Len(trace) - 1][2]
                ELSE trace[Len(trace) - 2][2]

\* The size the caller asked for in the call under way (or just returned).
RequestedSize == IF pc = "returned" THEN trace[Len(trace) - 1][2]
                 ELSE trace[Len(trace)][2]

Drawing == pc \in {"bubble_geom", "bubble_draw", "tail_geom", "tail_draw",
                   "dots_geom", "dot"}

(***************************************************************************)
(* C1  End to end: a run that starts without the directory src/icons and   *)
(* in which no I/O operation fails ends with the directory existing and    *)
(* holding exactly the files logo-16.png, logo-32.png, logo-64.png and     *)
(* logo-128.png, logo-<s>.png an image of width and height s.  The run     *)
(* terminates: until it has ended a statement can always execute, and it   *)
(* executes at most 13 statements before the one that ends it.             *)
(***************************************************************************)
C1_Result ==
    (pc = "exit" /\ exc = "" /\ <<"src", "icons">> \notin fs0.dirs) =>
        /\ <<"src", "icons">> \in fs.dirs
        /\ {p \in DOMAIN fs.files : Parent(p) = <<"src", "icons">>} = LogoPaths
        /\ {d \in fs.dirs : Parent(d) = <<"src", "icons">>} = {}
        /\ \A k \in 1..4 :
              HoldsImage(fs.files[LogoPath(ClaimSizes[k])], ClaimSizes[k])

C1_EndToEnd ==
    /\ C1_Result
    /\ pc \in {"makedirs", "loop", "save", "print"} =>
          ENABLED Step /\ Len(trace) <= 13
    /\ pc \in {"idle", "exit"} => ~ENABLED Step

C1_Witness ==
    /\ pc = "exit" /\ exc = "" /\ run = 1 /\ fs0.dirs = {}
    /\ LogoPaths = DOMAIN fs.files
    /\ fs.files[LogoPath(128)].width = 128

(***************************************************************************)
(* C2  Idempotence: a run that follows a run without failure finds the     *)
(* directory and does not fail because it or the files exist; if it too    *)
(* has no I/O failure, it leaves the filesystem exactly as the first run   *)
(* left it: the same files with the same content.                          *)
(***************************************************************************)
C2_Idempotence ==
    (run >= 2 /\ Len(ends) = run /\ ends[run - 1] = "") =>
        /\ trace # <<>> /\ trace[1] = <<"makedirs">>
        /\ ends[run] \in {"", "PermissionError", "OSError"}
        /\ ends[run] = "" => /\ fs = fs0
                             /\ LogoPaths \subseteq DOMAIN fs.files

C2_Witness ==
    /\ run = 2 /\ pc = "exit" /\ ends = <<"", "">>
    /\ fs = fs0 /\ LogoPaths \subseteq DOMAIN fs.files

(***************************************************************************)
(* C3  Fail fast, no rollback: when a statement raises, the run ends with  *)
(* that error and executes nothing more.  If os.makedirs raised, nothing   *)
(* was rendered, written or printed.  If the save of the k-th size raised, *)
(* the files saved for the earlier sizes are in place with the content     *)
(* saved, the later sizes were neither rendered nor written, and the       *)
(* confirmation lines are those of the earlier sizes only.                 *)
(***************************************************************************)
C3_FailFast ==
    exc # "" =>
        /\ pc = "exit" /\ ~ENABLED Step
        /\ Len(ends) = run /\ ends[run] = exc
        /\ Raised
        /\ \A j \in 1..(Len(trace) - 1) : trace[j][1] # "raise"
        /\ \A p \in DOMAIN written : IsFile(fs, p) /\ fs.files[p] = written[p]
        /\ out = [j \in 1..Cardinality(DOMAIN written) |-> CreatedLine(j)]
        /\ IF trace[Len(trace)][2] = 0
           THEN /\ trace = << <<"raise", 0>> >>
                /\ fs.files = fs0.files
                /\ DOMAIN written = {}
           ELSE /\ idx \in 1..4
                /\ trace = Completed(idx - 1) \o
                             << <<"render", ClaimSizes[idx]>>,
                                <<"raise", ClaimSizes[idx]>> >>
                /\ DOMAIN written = {LogoPath(ClaimSizes[j]) : j \in 1..(idx - 1)}
                /\ \A j \in (idx + 1)..4 :
                      LET q == LogoPath(ClaimSizes[j])
                      IN  /\ IsFile(fs, q) <=> IsFile(fs0, q)
                          /\ IsFile(fs, q) => fs.files[q] = fs0.files[q]

C3_Witness ==
    /\ exc = "OSError" /\ idx = 3
    /\ Cardinality(DOMAIN written) = 2
    /\ fs.files[LogoPath(64)] = Truncated
    /\ fs.files[LogoPath(32)].width = 32

(***************************************************************************)
(* C4  Determinism: whatever was rendered before, the canvas a call        *)
(* returns is the canvas of its size rendered alone, and a canvas once     *)
(* returned is not changed by the calls that follow.                       *)
(***************************************************************************)
C4_Determinism ==
    /\ pc = "returned" =>
          /\ trace[Len(trace)] = <<"render", RequestedSize>>
          /\ icon = create_linkedin_chat_icon(RequestedSize)
    /\ (Drawing \/ pc = "new") /\ ncalls >= 2 =>
          icon = create_linkedin_chat_icon(ReturnedSize)

C4_Witness ==
    /\ pc = "returned" /\ ncalls = 2
    /\ trace[1][2] # trace[3][2]
    /\ \E p \in DOMAIN icon.px : icon.px[p] = 16777215

(***************************************************************************)
(* C5  Dimension law: from its allocation to its return the canvas is      *)
(* size pixels wide and size pixels high, also when part of a shape falls  *)
(* outside it.                                                             *)
(***************************************************************************)
C5_Dimension ==
    /\ Drawing => /\ img.width = RequestedSize
                  /\ img.height = RequestedSize
                  /\ DOMAIN img.px = 1..(RequestedSize * RequestedSize)
    /\ pc = "returned" =>
                  /\ icon.width = RequestedSize
                  /\ icon.height = RequestedSize
                  /\ DOMAIN icon.px = 1..(RequestedSize * RequestedSize)

C5_Witness ==
    /\ pc = "dot" /\ loc.i >= 1
    /\ dot_x(loc, 0) - loc.dot_radius < 0
    /\ img.width = loc.size /\ img.height = loc.size

(***************************************************************************)
(* C6  Colour containment: at every step of a render and in the canvas     *)
(* returned, every pixel is 0x0A66C2 or 0xFFFFFF.                          *)
(***************************************************************************)
C6_Colors ==
    /\ \A p \in DOMAIN img.px : img.px[p] \in {681666, 16777215}
    /\ \A p \in DOMAIN icon.px : icon.px[p] \in {681666, 16777215}

C6_Witness ==
    /\ pc = "dot" /\ loc.i = 3
    /\ \E p \in DOMAIN img.px : img.px[p] = 681666
    /\ \E p \in DOMAIN img.px : img.px[p] = 16777215

(***************************************************************************)
(* C7  Proportionality: bubble_right - bubble_left is floor(size * 0.7),   *)
(* i.e. floor(7 * size / 10); left = top = margin = (size - bubble_size)   *)
(* div 2; bottom = margin + floor(bubble_size * 0.75); the bubble is not   *)
(* taller than wide.                                                       *)
(***************************************************************************)
C7_Proportionality ==
    pc \in {"g_tail", "g_dots", "g_done"} =>
        /\ loc.bubble_right - loc.bubble_left = (7 * loc.size) \div 10
        /\ loc.bubble_left = loc.margin /\ loc.bubble_top = loc.margin
        /\ loc.margin = (loc.size - loc.bubble_size) \div 2
        /\ loc.bubble_bottom = loc.margin + (3 * loc.bubble_size) \div 4
        /\ loc.bubble_bottom - loc.bubble_top <= loc.bubble_right - loc.bubble_left

(***************************************************************************)
(* C8  Minimum dot radius: the radius is max(1, size div 32): 1 for every  *)
(* size below 32 and at least 1 for every size.                            *)
(***************************************************************************)
C8_DotRadius ==
    pc = "g_done" =>
        /\ loc.dot_radius >= 1
        /\ loc.size < 32 => loc.dot_radius = 1
        /\ loc.dot_radius = IF loc.size \div 32 >= 1 THEN loc.size \div 32 ELSE 1

C8_Witness == pc = "g_done" /\ loc.size = 31 /\ loc.dot_radius = 1

(***************************************************************************)
(* C9  Order of events: the directory is ensured once, first; the sizes    *)
(* follow in the order 16, 32, 64, 128, each rendered, then saved, then    *)
(* confirmed; the lines printed are those of the confirmed sizes.          *)
(***************************************************************************)
C9_Events ==
    LET body == IF Raised THEN SubSeq(trace, 1, Len(trace) - 1) ELSE trace
        printed == IF body = <<>> THEN 0 ELSE (Len(body) - 1) \div 3
    IN  /\ Len(body) <= Len(Completed(4))
        /\ body = SubSeq(Completed(4), 1, Len(body))
        /\ out = [j \in 1..printed |-> CreatedLine(j)]

\* C9 as stated: moreover, at every point of the run there are as many
\* confirmation lines as files the run has written.
C9_Original == C9_Events /\ Len(out) = Cardinality(DOMAIN written)

\* C9 as amended: moreover, there are as many confirmation lines as files the
\* run has written, except between a write and its confirmation, where
\* there is one line less.
C9_Order ==
    /\ C9_Events
    /\ Len(out) = Cardinality(DOMAIN written) - (IF pc = "print" THEN 1 ELSE 0)

C9_Witness ==
    /\ pc = "print" /\ idx = 2
    /\ Len(out) = 1 /\ Cardinality(DOMAIN written) = 2

(***************************************************************************)
(* C10  Distinct dots: for the sizes 16, 32, 64 and 128 the bounding boxes *)
(* of the three dots are pairwise disjoint, i.e. dot_spacing exceeds       *)
(* 2 * dot_radius.                                                         *)
(***************************************************************************)
C10_DotsDisjoint ==
    (pc = "g_done" /\ loc.size \in {16, 32, 64, 128}) =>
        /\ loc.dot_spacing > 2 * loc.dot_radius
        /\ \A i, j \in 0..2 :
              i < j => dot_x(loc, i) + loc.dot_radius < dot_x(loc, j) - loc.dot_radius

====
